---------------------------- MODULE Spec2Model ----------------------------
(***************************************************************************)
(* Model of the menu-mix utility:                                          *)
(*   merge_menu_data.py  - main(): the enrichment run (sales extract left  *)
(*                         joined to the item master spreadsheet)          *)
(*   pmix_dashboard.py   - load_data, filter_df, aggregate, make_fig       *)
(*                                                                         *)
(* Text is a sequence of one-character strings, so that str.strip() is     *)
(* modelled by what it does.  A missing cell (pandas NaN) is the value     *)
(* NaN below, which is no text.  An optional number is <<>> (NaN) or <<n>>.*)
(***************************************************************************)
EXTENDS Integers, Sequences, FiniteSets, TLC

VARIABLES
    \* ---- merge_menu_data.py ----
    mix_csv,      \* the sales extract on disk: [cols, rows]
    master_xlsx,  \* the master sheet below its header row (columns A,C,D,J,L)
    pc,           \* "start" | "done" | "error"   (position of main())
    error,        \* "" | "ValueError" | "AttributeError"
    df_master,    \* the master table used for the join
    df_out,       \* the enriched table: [cols, rows, src]
    out_xlsx,     \* <<>> (not written) or <<table>>
    out_csv,      \* <<>> (not written) or <<table>>
    diag,         \* the three printed figures
    \* ---- pmix_dashboard.py ----
    csv,          \* the enriched CSV the dashboard loads (rows)
    df,           \* load_data's result
    q,            \* filter_df's result, the table handed to aggregate
    agg,          \* aggregate's result (g)
    view,         \* make_fig's result (data)
    time_key,     \* aggregate's second result
    call,         \* the arguments of the calls made so far
    step          \* "init" | "loaded" | "filtered" | "aggregated" | "drawn"

enrichVars == <<mix_csv, master_xlsx, pc, error, df_master, df_out, out_xlsx, out_csv, diag>>
dashVars == <<csv, df, q, agg, view, time_key, call, step>>
vars == <<mix_csv, master_xlsx, pc, error, df_master, df_out, out_xlsx, out_csv, diag,
          csv, df, q, agg, view, time_key, call, step>>

----------------------------------------------------------------------------
(* Text helpers *)

NaN == <<"NaN">>

Range(s) == {s[i] : i \in 1..Len(s)}

RECURSIVE LStrip(_)
LStrip(s) == IF s # <<>> /\ Head(s) = " " THEN LStrip(Tail(s)) ELSE s

RECURSIVE RStrip(_)
RStrip(s) == IF s # <<>> /\ s[Len(s)] = " " THEN RStrip(SubSeq(s, 1, Len(s) - 1)) ELSE s

\* str.strip()
Strip(s) == RStrip(LStrip(s))

\* astype(str) on an object column: a missing value becomes the text "nan"
AsStr(c) == IF c = NaN THEN <<"n", "a", "n">> ELSE c

\* column names of the two files
ItemID == <<"I", "t", "e", "m", "I", "D">>
Item_ID == <<"I", "t", "e", "m", " ", "I", "D">>
ItemId == <<"I", "t", "e", "m", "I", "d">>
ItemName == <<"I", "t", "e", "m", "N", "a", "m", "e">>
Item_Name == <<"I", "t", "e", "m", " ", "N", "a", "m", "e">>
ProductClass == <<"P", "r", "o", "d", "u", "c", "t", " ", "C", "l", "a", "s", "s">>
RevenueCategory == <<"R", "e", "v", "e", "n", "u", "e", " ", "C", "a", "t", "e", "g", "o", "r", "y">>
ItemGroup == <<"I", "t", "e", "m", " ", "G", "r", "o", "u", "p">>
Qty == <<"Q", "t", "y">>

\* index of the first column called name (0 when there is none)
IndexOf(cols, name) ==
    IF \E i \in 1..Len(cols) : cols[i] = name
    THEN CHOOSE i \in 1..Len(cols) : cols[i] = name /\ \A j \in 1..(i - 1) : cols[j] # name
    ELSE 0

Has(cols, name) == \E i \in 1..Len(cols) : cols[i] = name

Count(cols, name) == Cardinality({i \in 1..Len(cols) : cols[i] = name})

\* s without its i-th element
RemoveAt(s, i) == SubSeq(s, 1, i - 1) \o SubSeq(s, i + 1, Len(s))

\* s with x put after its i-th element
InsertAfter(s, i, x) == SubSeq(s, 1, i) \o x \o SubSeq(s, i + 1, Len(s))

RECURSIVE Flatten(_)
Flatten(ss) == IF ss = <<>> THEN <<>> ELSE Head(ss) \o Flatten(Tail(ss))

----------------------------------------------------------------------------
(* merge_menu_data.py : main() *)

\* df_mix.columns = [c.strip() for c in df_mix.columns]
StripCols(cols) == [i \in 1..Len(cols) |-> Strip(cols[i])]

Rename(cols, from, to) == [i \in 1..Len(cols) |-> IF cols[i] = from THEN to ELSE cols[i]]

\* a variant that knows the alias "Item ID" only
RenameAliasesItemIDOnly(cols) ==
    IF Has(cols, Item_ID) /\ ~Has(cols, ItemID) THEN Rename(cols, Item_ID, ItemID) ELSE cols

\* the rename of "Item ID" / "ItemId" to "ItemID"
RenameAliases(cols) ==
    IF Has(cols, Item_ID) /\ ~Has(cols, ItemID) THEN Rename(cols, Item_ID, ItemID)
    ELSE IF Has(cols, ItemId) /\ ~Has(cols, ItemID) THEN Rename(cols, ItemId, ItemID)
    ELSE cols

\* the columns of df_mix when the key column is looked up
MixColumns(file) == RenameAliases(StripCols(file.cols))

\* df_mix["ItemID"] = df_mix["ItemID"].astype(str).str.strip()
CleanMixKey(cols, rows) ==
    LET k == IndexOf(cols, ItemID)
    IN [i \in 1..Len(rows) |-> [rows[i] EXCEPT ![k] = Strip(AsStr(rows[i][k]))]]

\* Series.ffill(): a scan that carries the last value seen
RECURSIVE FFillFrom(_, _)
FFillFrom(cells, last) ==
    IF cells = <<>> THEN <<>>
    ELSE LET v == IF Head(cells) = NaN THEN last ELSE Head(cells)
         IN <<v>> \o FFillFrom(Tail(cells), v)

FFill(cells) == FFillFrom(cells, NaN)

\* df_master["Product Class"] = df_master["Product Class"].ffill()
FFillProductClass(sheet) ==
    LET filled == FFill([i \in 1..Len(sheet) |-> sheet[i].pclass])
    IN [i \in 1..Len(sheet) |-> [sheet[i] EXCEPT !.pclass = filled[i]]]

\* df_master.dropna(subset=["ItemID"]); the rows keep their index
DropNaItemID(rows) == SelectSeq(rows, LAMBDA r : r.id # NaN)

\* a variant that drops the rows without an identifier before it fills
LoadMasterDropFirst(sheet) ==
    LET indexed == [i \in 1..Len(sheet) |->
                       [row |-> i, id |-> sheet[i].id, name |-> sheet[i].name,
                        pclass |-> sheet[i].pclass, rev |-> sheet[i].rev, grp |-> sheet[i].grp]]
        kept == FFillProductClass(DropNaItemID(indexed))
    IN [i \in 1..Len(kept) |-> [kept[i] EXCEPT !.id = Strip(AsStr(kept[i].id))]]

\* the master table of the join: forward-fill, drop the rows without an
\* identifier, clean the key; "row" is the row's index in the sheet
LoadMaster(sheet) ==
    LET indexed == [i \in 1..Len(sheet) |->
                       [row |-> i, id |-> sheet[i].id, name |-> sheet[i].name,
                        pclass |-> sheet[i].pclass, rev |-> sheet[i].rev, grp |-> sheet[i].grp]]
        kept == DropNaItemID(FFillProductClass(indexed))
    IN [i \in 1..Len(kept) |-> [kept[i] EXCEPT !.id = Strip(AsStr(kept[i].id))]]

\* the master columns the join adds, in the order of "needed"
MasterCols == <<Item_Name, RevenueCategory, ItemGroup, ProductClass>>

MasterCells(m) == <<m.name, m.rev, m.grp, m.pclass>>

NoMasterCells == <<NaN, NaN, NaN, NaN>>

\* the master entries whose key equals id, in master order
Matches(master, id) == SelectSeq([j \in 1..Len(master) |-> j], LAMBDA j : master[j].id = id)

\* the output rows of one transaction row (an inner join: none when unmatched)
MergeRowInner(cols, rows, master, i) ==
    LET ms == Matches(master, rows[i][IndexOf(cols, ItemID)])
    IN [n \in 1..Len(ms) |-> [cells |-> rows[i] \o MasterCells(master[ms[n]]),
                               mix |-> i, master |-> ms[n]]]

\* the output rows of one transaction row under how="left"
MergeRow(cols, rows, master, i) ==
    LET ms == Matches(master, rows[i][IndexOf(cols, ItemID)])
    IN IF ms = <<>>
       THEN << [cells |-> rows[i] \o NoMasterCells, mix |-> i, master |-> 0] >>
       ELSE [n \in 1..Len(ms) |-> [cells |-> rows[i] \o MasterCells(master[ms[n]]),
                                   mix |-> i, master |-> ms[n]]]

\* df_mix.merge(df_master, on="ItemID", how="left"); each output row also
\* records the transaction row and the master entry it was made from.  The
\* extract has no column named like one of the master's (no _x/_y suffixes).
Merge(cols, rows, master) ==
    LET parts == [i \in 1..Len(rows) |-> MergeRow(cols, rows, master, i)]
        flat == Flatten(parts)
    IN [cols |-> cols \o MasterCols,
        rows |-> [n \in 1..Len(flat) |-> flat[n].cells],
        src |-> [n \in 1..Len(flat) |-> [mix |-> flat[n].mix, master |-> flat[n].master]]]

\* a variant that always takes the master's cell
WhereMaster(masterName, original) == masterName

\* a variant that never takes the master's cell
WhereOriginal(masterName, original) == original

\* Series.where(notna, other) for one cell
Where(masterName, original) == IF masterName # NaN THEN masterName ELSE original

\* lines 71-77: ItemName from the master's "Item Name", which is then dropped
ResolveNames(t) ==
    LET m == IndexOf(t.cols, Item_Name)
        n == IndexOf(t.cols, ItemName)
    IN IF m = 0 THEN t
       ELSE IF n # 0
       THEN [t EXCEPT !.cols = RemoveAt(t.cols, m),
                      !.rows = [i \in 1..Len(t.rows) |->
                                   RemoveAt([t.rows[i] EXCEPT ![n] = Where(t.rows[i][m], t.rows[i][n])], m)]]
       ELSE [t EXCEPT !.cols = RemoveAt(t.cols, m) \o <<ItemName>>,
                      !.rows = [i \in 1..Len(t.rows) |->
                                   RemoveAt(t.rows[i], m) \o <<t.rows[i][m]>>]]

\* lines 80-88: the three new columns right after ItemName
PlaceNewCols(t) ==
    LET new_cols == SelectSeq(<<ProductClass, RevenueCategory, ItemGroup>>, LAMBDA c : Has(t.cols, c))
        rest == SelectSeq(t.cols, LAMBDA c : ~Has(new_cols, c))
        cols == InsertAfter(rest, IndexOf(rest, ItemName), new_cols)
    IN IF ~Has(t.cols, ItemName) THEN t
       ELSE [t EXCEPT !.cols = cols,
                      !.rows = [i \in 1..Len(t.rows) |->
                                   [k \in 1..Len(cols) |-> t.rows[i][IndexOf(t.cols, cols[k])]]]]

Cell(t, i, name) == t.rows[i][IndexOf(t.cols, name)]

\* lines 95-96
Matched(t) ==
    IF Has(t.cols, ItemName)
    THEN Cardinality({i \in 1..Len(t.rows) : Cell(t, i, ItemName) # NaN})
    ELSE 0

Unmatched(t) ==
    IF Has(t.cols, ItemName)
    THEN Cardinality({Cell(t, i, ItemID) : i \in {k \in 1..Len(t.rows) : Cell(t, k, ItemName) = NaN}})
    ELSE 0

NoTable == [cols |-> <<>>, rows |-> <<>>, src |-> <<>>]

NoDiag == [rows |-> 0, matched |-> 0, unmatched |-> 0]

\* main(): one run of the enrichment script on the two files
Main ==
    /\ pc = "start"
    /\ LET cols == MixColumns(mix_csv)
       IN IF ~Has(cols, ItemID)
          THEN \* line 28: raise ValueError
               /\ pc' = "error"
               /\ error' = "ValueError"
               /\ UNCHANGED <<df_master, df_out, out_xlsx, out_csv, diag>>
          ELSE IF Count(cols, ItemID) > 1
          THEN \* line 31: two columns are called ItemID, the selection is a
               \* DataFrame and has no .str
               /\ pc' = "error"
               /\ error' = "AttributeError"
               /\ UNCHANGED <<df_master, df_out, out_xlsx, out_csv, diag>>
          ELSE LET rows == CleanMixKey(cols, mix_csv.rows)
                   master == LoadMaster(master_xlsx)
                   out == PlaceNewCols(ResolveNames(Merge(cols, rows, master)))
               IN /\ pc' = "done"
                  /\ error' = ""
                  /\ df_master' = master
                  /\ df_out' = out
                  /\ out_xlsx' = <<out>>
                  /\ out_csv' = <<out>>
                  /\ diag' = [rows |-> Len(rows), matched |-> Matched(out), unmatched |-> Unmatched(out)]
    /\ UNCHANGED <<mix_csv, master_xlsx>>
    /\ UNCHANGED dashVars

----------------------------------------------------------------------------
(* The enrichment run: its input files *)

MaxMixRows == 2
MaxMasterRows == 2
MaxSheetRows == 3
MaxCols == 3

SeqsUpTo(S, n) == UNION {[1..k -> S] : k \in 0..n}

\* identifier cells of the extract (a missing one reads as NaN)
MixIds == {<<"a">>, <<" ", "a">>, NaN}

MixNames == {NaN, <<"t">>}

\* an extract with the columns ItemID, ItemName, and one with the only
\* column " Item ID"
MixFiles ==
    {[cols |-> <<ItemID, ItemName>>, rows |-> r] : r \in SeqsUpTo(MixIds \X MixNames, MaxMixRows)}
    \cup {[cols |-> << <<" ">> \o Item_ID >>, rows |-> r] : r \in SeqsUpTo({<<i>> : i \in MixIds}, MaxMixRows)}

SheetRow(id, name, pclass) ==
    [id |-> id, name |-> name, pclass |-> pclass, rev |-> <<"R">>, grp |-> <<"G">>]

\* a group row of the report: a Product Class and nothing else
GroupRow(pclass) == [id |-> NaN, name |-> NaN, pclass |-> pclass, rev |-> NaN, grp |-> NaN]

MasterRows ==
    {SheetRow(id, name, <<"P">>) : id \in {<<"a">>, <<"a", " ">>}, name \in {NaN, <<"M">>}}
    \cup {SheetRow(<<"b">>, <<"M">>, <<"P">>), GroupRow(<<"P">>)}

SheetRows ==
    {SheetRow(id, <<"M">>, pclass) : id \in {<<"a">>, <<"b">>}, pclass \in {NaN, <<"P">>, <<"Q">>}}
    \cup {GroupRow(pclass) : pclass \in {NaN, <<"P">>, <<"Q">>}}

\* raw headers of the extract
RawHeaders ==
    {ItemID, <<" ">> \o ItemID, Item_ID \o <<" ">>, ItemId, ItemName,
     <<"i", "t", "e", "m", "i", "d">>, Qty}

\* read_csv never yields two equal raw headers
Injective(s) == \A i, j \in 1..Len(s) : s[i] = s[j] => i = j

HeaderFiles ==
    {[cols |-> c, rows |-> << [i \in 1..Len(c) |-> <<"a">>] >>] :
        c \in {h \in SeqsUpTo(RawHeaders, MaxCols) : Len(h) >= 1 /\ Injective(h)}}

EmptyTable == [rows |-> <<>>, dow |-> "object"]

NoCall == [filters |-> <<>>, date_range |-> <<>>, time_slice |-> "", compare_by |-> "",
           observed |-> FALSE, top_n |-> 0]

DashIdle ==
    /\ csv = <<>>
    /\ df = EmptyTable
    /\ q = EmptyTable
    /\ agg = <<>>
    /\ view = <<>>
    /\ time_key = ""
    /\ call = NoCall
    /\ step = "idle"

EnrichStart ==
    /\ pc = "start"
    /\ error = ""
    /\ df_master = <<>>
    /\ df_out = NoTable
    /\ out_xlsx = <<>>
    /\ out_csv = <<>>
    /\ diag = NoDiag

\* the join: any extract, any master of up to MaxMasterRows rows
Init ==
    /\ mix_csv \in MixFiles
    /\ master_xlsx \in SeqsUpTo(MasterRows, MaxMasterRows)
    /\ EnrichStart
    /\ DashIdle

Next == Main

Spec == Init /\ [][Next]_vars

\* the header row: any headers, one transaction row, one master entry
InitCols ==
    /\ mix_csv \in HeaderFiles
    /\ master_xlsx = << SheetRow(<<"a">>, <<"M">>, <<"P">>) >>
    /\ EnrichStart
    /\ DashIdle

SpecCols == InitCols /\ [][Next]_vars

\* the master sheet: any sheet of up to MaxSheetRows rows
InitSheet ==
    /\ mix_csv \in {[cols |-> <<ItemID, ItemName>>, rows |-> << <<i, <<"t">> >> >>] : i \in {<<"a">>, <<"b">>}}
    /\ master_xlsx \in SeqsUpTo(SheetRows, MaxSheetRows)
    /\ EnrichStart
    /\ DashIdle

SpecSheet == InitSheet /\ [][Next]_vars

----------------------------------------------------------------------------
(* Properties of the enrichment run *)

\* the extract's column that holds the identifier / the name (0: none)
KeyCol == CHOOSE k \in 1..Len(mix_csv.cols) : Strip(mix_csv.cols[k]) \in {ItemID, Item_ID, ItemId}

NameCol == IndexOf(mix_csv.cols, ItemName)

\* the identifier of transaction row i as the join compares it
MixKey(i) == Strip(AsStr(mix_csv.rows[i][KeyCol]))

\* the transaction row's own name (absent without an ItemName column)
OriginalName(i) == IF NameCol = 0 THEN NaN ELSE mix_csv.rows[i][NameCol]

\* the sheet rows that are catalog entries
Entries == {j \in 1..Len(master_xlsx) : master_xlsx[j].id # NaN}

\* the sheet rows that are the catalog entries of identifier k
EntriesOf(k) == {j \in Entries : Strip(master_xlsx[j].id) = k}

NoSharedRawItemID == \A i, j \in Entries : master_xlsx[i].id = master_xlsx[j].id => i = j

NoSharedTrimmedItemID == \A i, j \in Entries : Strip(master_xlsx[i].id) = Strip(master_xlsx[j].id) => i = j

\* one output row per transaction row, in the extract's order
OneRowPerTransaction ==
    /\ Len(df_out.rows) = Len(mix_csv.rows)
    /\ diag.rows = Len(mix_csv.rows)
    /\ \A n \in 1..Len(df_out.rows) :
          /\ n <= Len(mix_csv.rows)
          /\ df_out.src[n].mix = n
          /\ Cell(df_out, n, ItemID) = MixKey(n)

\* C1 as stated: if no two entries of the master catalog hold the same ItemID
\* cell, the enriched output has exactly one row per transaction row, in order.
C1_RowCountRawKeys == (pc = "done" /\ NoSharedRawItemID) => OneRowPerTransaction

\* C1 (amended): if no two entries of the master catalog share an ItemID once
\* the identifiers are trimmed, the enriched output has exactly one row per
\* transaction row, in the extract's order.
C1_RowCount == (pc = "done" /\ NoSharedTrimmedItemID) => OneRowPerTransaction

C1_Witness ==
    /\ pc = "done"
    /\ NoSharedTrimmedItemID
    /\ Len(mix_csv.rows) = 2
    /\ Cardinality(Entries) = 2
    /\ EntriesOf(MixKey(1)) = {}
    /\ EntriesOf(MixKey(2)) # {}
    /\ mix_csv.rows[2][KeyCol] # MixKey(2)

\* the sheet row of the master entry that output row n was joined to
MasterRowOf(n) == df_master[df_out.src[n].master].row

\* C2 as stated: an output row whose identifier is in the master catalog
\* carries the master's name.
C2_MasterNameAlways ==
    pc = "done" =>
        \A n \in 1..Len(df_out.rows) :
            EntriesOf(MixKey(df_out.src[n].mix)) # {} =>
                /\ df_out.src[n].master # 0
                /\ Cell(df_out, n, ItemName) = master_xlsx[MasterRowOf(n)].name

\* C2 (amended): an output row whose identifier is in the master catalog
\* carries the master's name when that name is not blank; when it is blank the
\* row keeps the transaction's own name.
C2_MasterName ==
    pc = "done" =>
        \A n \in 1..Len(df_out.rows) :
            EntriesOf(MixKey(df_out.src[n].mix)) # {} =>
                /\ df_out.src[n].master # 0
                /\ MasterRowOf(n) \in EntriesOf(MixKey(df_out.src[n].mix))
                /\ Cell(df_out, n, ItemName) =
                      IF master_xlsx[MasterRowOf(n)].name # NaN
                      THEN master_xlsx[MasterRowOf(n)].name
                      ELSE OriginalName(df_out.src[n].mix)

C2_Witness ==
    /\ pc = "done"
    /\ \E n \in 1..Len(df_out.rows) :
          /\ df_out.src[n].master # 0
          /\ master_xlsx[MasterRowOf(n)].name # NaN
          /\ OriginalName(df_out.src[n].mix) # NaN
          /\ mix_csv.rows[df_out.src[n].mix][KeyCol] # master_xlsx[MasterRowOf(n)].id
    /\ \E n \in 1..Len(df_out.rows) :
          /\ df_out.src[n].master # 0
          /\ master_xlsx[MasterRowOf(n)].name = NaN
          /\ OriginalName(df_out.src[n].mix) # NaN

\* C3: an output row whose identifier is not in the master catalog keeps the
\* transaction's own name, and its Product Class, Revenue Category and Item
\* Group are absent.
C3_Unmatched ==
    pc = "done" =>
        \A n \in 1..Len(df_out.rows) :
            EntriesOf(MixKey(df_out.src[n].mix)) = {} =>
                /\ Cell(df_out, n, ItemName) = OriginalName(df_out.src[n].mix)
                /\ Cell(df_out, n, ProductClass) = NaN
                /\ Cell(df_out, n, RevenueCategory) = NaN
                /\ Cell(df_out, n, ItemGroup) = NaN

C3_Witness ==
    /\ pc = "done"
    /\ Entries # {}
    /\ \E n \in 1..Len(df_out.rows) :
          /\ EntriesOf(MixKey(df_out.src[n].mix)) = {}
          /\ Cell(df_out, n, ItemName) # NaN

\* the distinct identifiers of the extract that have no master entry
UnmatchedIds == {MixKey(i) : i \in {k \in 1..Len(mix_csv.rows) : EntriesOf(MixKey(k)) = {}}}

\* C6: the unmatched figure of the diagnostics is the number of distinct
\* ItemIDs of the extract that have no entry in the master catalog.
C6_UnmatchedFigure == pc = "done" => diag.unmatched = Cardinality(UnmatchedIds)

StrippedHeaders == {Strip(mix_csv.cols[k]) : k \in 1..Len(mix_csv.cols)}

NoKeyColumn == StrippedHeaders \cap {ItemID, Item_ID, ItemId} = {}

\* C5: the run ends with the missing-key-column error exactly when no header,
\* stripped, is ItemID, Item ID or ItemId; a failed run has written no file; a
\* run that did not fail has the identifier column under the name ItemID.
C5_MissingKeyColumn ==
    pc # "start" =>
        /\ (pc = "error" /\ error = "ValueError") <=> NoKeyColumn
        /\ pc = "error" => (out_xlsx = <<>> /\ out_csv = <<>>)
        /\ pc = "done" => /\ Count(df_out.cols, ItemID) = 1
                          /\ out_csv = <<df_out>>
                          /\ \A n \in 1..Len(df_out.rows) : Cell(df_out, n, ItemID) = MixKey(n)

C5_Witness ==
    /\ pc = "error"
    /\ error = "ValueError"
    /\ Len(mix_csv.cols) >= 2
    /\ out_csv = <<>>

\* the nearest non-blank Product Class cell at or above sheet row i
CarrierRows(i) == {j \in 1..i : master_xlsx[j].pclass # NaN}

NearestProductClass(i) ==
    IF CarrierRows(i) = {} THEN NaN
    ELSE master_xlsx[CHOOSE j \in CarrierRows(i) : \A k \in CarrierRows(i) : k <= j].pclass

\* C10: every entry of the master table used for the join has the nearest
\* non-blank Product Class cell at or above its sheet row, rows without an
\* identifier included; above the first non-blank cell it has none.
C10_ForwardFill ==
    pc = "done" =>
        /\ \A e \in 1..Len(df_master) : df_master[e].pclass = NearestProductClass(df_master[e].row)
        /\ {df_master[e].row : e \in 1..Len(df_master)} = Entries
        /\ \A n \in 1..Len(df_out.rows) :
              df_out.src[n].master # 0 =>
                  Cell(df_out, n, ProductClass) = NearestProductClass(MasterRowOf(n))

C10_Witness ==
    /\ pc = "done"
    /\ \E n \in 1..Len(df_out.rows) :
          /\ df_out.src[n].master # 0
          /\ master_xlsx[MasterRowOf(n)].pclass = NaN
          /\ Cell(df_out, n, ProductClass) # NaN
          /\ MasterRowOf(n) > 1
          /\ master_xlsx[MasterRowOf(n) - 1].id = NaN
          /\ master_xlsx[MasterRowOf(n) - 1].pclass # NaN
    /\ \E e \in 1..Len(df_master) : df_master[e].pclass = NaN

----------------------------------------------------------------------------
(* pmix_dashboard.py : dates.  A date is <<year, month, day>>; a cell that     *)
(* pd.to_datetime cannot parse is BadDate.                                     *)

BadDate == <<0, 0, 0>>

IsLeap(y) == (y % 4 = 0 /\ y % 100 # 0) \/ y % 400 = 0

DaysIn(y, m) ==
    IF m = 2 THEN (IF IsLeap(y) THEN 29 ELSE 28)
    ELSE IF m \in {4, 6, 9, 11} THEN 30 ELSE 31

RECURSIVE DaysBeforeMonth(_, _)
DaysBeforeMonth(y, m) == IF m = 1 THEN 0 ELSE DaysBeforeMonth(y, m - 1) + DaysIn(y, m - 1)

\* the proleptic Gregorian ordinal (1 is Monday, January 1 of year 1)
Ordinal(d) ==
    LET y == d[1] - 1
    IN 365 * y + (y \div 4) - (y \div 100) + (y \div 400) + DaysBeforeMonth(d[1], d[2]) + d[3]

\* Timestamp.weekday(): Monday is 0
Weekday(d) == (Ordinal(d) + 6) % 7

ordered_days == <<"Monday", "Tuesday", "Wednesday", "Thursday", "Friday", "Saturday", "Sunday">>

\* Timestamp.day_name()
DayName(d) == ordered_days[Weekday(d) + 1]

PrevDay(d) ==
    IF d[3] > 1 THEN <<d[1], d[2], d[3] - 1>>
    ELSE IF d[2] > 1 THEN <<d[1], d[2] - 1, DaysIn(d[1], d[2] - 1)>>
    ELSE <<d[1] - 1, 12, 31>>

RECURSIVE MinusDays(_, _)
MinusDays(d, n) == IF n = 0 THEN d ELSE MinusDays(PrevDay(d), n - 1)

\* a <= b on dates (and on any two tuples of three numbers)
DateLE(a, b) ==
    \/ a[1] < b[1]
    \/ a[1] = b[1] /\ a[2] < b[2]
    \/ a[1] = b[1] /\ a[2] = b[2] /\ a[3] <= b[3]

\* isocalendar(): the ISO year and week are those of the week's Thursday
IsoYear(d) ==
    LET th == Ordinal(d) - Weekday(d) + 3
    IN IF th < Ordinal(<<d[1], 1, 1>>) THEN d[1] - 1
       ELSE IF th >= Ordinal(<<d[1] + 1, 1, 1>>) THEN d[1] + 1
       ELSE d[1]

IsoWeek(d) ==
    LET th == Ordinal(d) - Weekday(d) + 3
    IN ((th - Ordinal(<<IsoYear(d), 1, 1>>)) \div 7) + 1

\* str(ISO_Year) + "-W" + str(ISO_Week).zfill(2); the digits of the week
WeekLabel(d) == <<IsoYear(d), "-W", IsoWeek(d) \div 10, IsoWeek(d) % 10>>

NoSeason == <<>>

\* a variant whose season starts one day late
ski_season_label_late(d) ==
    LET m == d[2]
        day == d[3]
        y == d[1]
    IN IF (m > 11) \/ (m = 11 /\ day > 10) \/ (m = 12) THEN <<y, y + 1>>
       ELSE IF (m < 4) \/ (m = 4 /\ day <= 20) THEN <<y - 1, y>>
       ELSE NoSeason

\* load_data.ski_season_label: the label "{Y}-{Y+1}" is <<Y, Y+1>>, None is
\* NoSeason
ski_season_label(d) ==
    LET m == d[2]
        day == d[3]
        y == d[1]
        candidate == IF (m > 11) \/ (m = 11 /\ day >= 10) \/ (m = 12) THEN <<y>>
                     ELSE IF (m < 4) \/ (m = 4 /\ day <= 20) THEN <<y - 1>>
                     ELSE <<>>
    IN IF candidate = <<>> THEN NoSeason
       ELSE LET start_year == candidate[1]
                start == <<start_year, 11, 10>>
                end == <<start_year + 1, 4, 20>>
            IN IF DateLE(start, d) /\ DateLE(d, end)
               THEN <<start_year, start_year + 1>>
               ELSE NoSeason

\* the row load_data makes of one CSV row with a valid date
Features(r) ==
    [BusinessDate |-> r.BusinessDate,
     ItemName |-> Strip(AsStr(r.ItemName)),
     ItemGroup |-> Strip(AsStr(r.ItemGroup)),
     NetRevenue |-> r.NetRevenue,
     Year |-> r.BusinessDate[1],
     Month |-> <<r.BusinessDate[1], r.BusinessDate[2], 1>>,
     ISO_Year |-> IsoYear(r.BusinessDate),
     ISO_Week |-> IsoWeek(r.BusinessDate),
     WeekLabel |-> WeekLabel(r.BusinessDate),
     WeekStart |-> MinusDays(r.BusinessDate, Weekday(r.BusinessDate)),
     DayOfWeek |-> DayName(r.BusinessDate),
     SkiSeason |-> ski_season_label(r.BusinessDate),
     InSkiSeason |-> ski_season_label(r.BusinessDate) # NoSeason]

\* load_data(path)
load_data(rows) ==
    LET valid == SelectSeq(rows, LAMBDA r : r.BusinessDate # BadDate)
    IN [rows |-> [i \in 1..Len(valid) |-> Features(valid[i])], dow |-> "object"]

LoadData ==
    /\ step = "init"
    /\ df' = load_data(csv)
    /\ step' = "loaded"
    /\ UNCHANGED <<csv, q, agg, view, time_key, call>>
    /\ UNCHANGED enrichVars

----------------------------------------------------------------------------
(* load_data on every date of a few years *)

MaxYears == 2

Years == 2023..(2023 + MaxYears - 1)

AllDates == {<<y, m, d>> : y \in Years, m \in 1..12, d \in 1..31} \ {<<y, m, d>> \in Years \X (1..12) \X (1..31) : d > DaysIn(y, m)}

CsvRow(date, name, group, revenue) ==
    [BusinessDate |-> date, ItemName |-> name, ItemGroup |-> group, NetRevenue |-> revenue]

EnrichIdle ==
    /\ mix_csv = [cols |-> <<ItemID>>, rows |-> <<>>]
    /\ master_xlsx = <<>>
    /\ pc = "idle"
    /\ error = ""
    /\ df_master = <<>>
    /\ df_out = NoTable
    /\ out_xlsx = <<>>
    /\ out_csv = <<>>
    /\ diag = NoDiag

DashStart ==
    /\ df = EmptyTable
    /\ q = EmptyTable
    /\ agg = <<>>
    /\ view = <<>>
    /\ time_key = ""
    /\ call = NoCall
    /\ step = "init"

InitSeason ==
    /\ csv \in {<< CsvRow(d, <<"x">>, <<"g">>, <<1>>) >> : d \in AllDates \cup {BadDate}}
    /\ DashStart
    /\ EnrichIdle

SpecSeason == InitSeason /\ [][LoadData]_vars

\* the season of date d by day count: the Y with Nov 10 of Y <= d <= Apr 20 of Y+1
SeasonStarts(d) ==
    {Y \in (d[1] - 2)..(d[1] + 1) :
        Ordinal(<<Y, 11, 10>>) <= Ordinal(d) /\ Ordinal(d) <= Ordinal(<<Y + 1, 4, 20>>)}

\* C4: a row's SkiSeason is "{Y}-{Y+1}" exactly when its BusinessDate lies in
\* [Nov 10 of Y, Apr 20 of Y+1], and is absent otherwise; Nov 9 and Apr 21 are
\* off-season, Nov 10 of y is "{y}-{y+1}", Apr 20 of y is "{y-1}-{y}".
C4_SkiSeason ==
    step = "loaded" =>
        \A i \in 1..Len(df.rows) :
            LET d == df.rows[i].BusinessDate
                label == df.rows[i].SkiSeason
            IN /\ \A Y \in (d[1] - 2)..(d[1] + 1) : (label = <<Y, Y + 1>>) <=> (Y \in SeasonStarts(d))
               /\ (label = NoSeason) <=> (SeasonStarts(d) = {})
               /\ df.rows[i].InSkiSeason <=> (SeasonStarts(d) # {})
               /\ (d[2] = 11 /\ d[3] = 9) => label = NoSeason
               /\ (d[2] = 11 /\ d[3] = 10) => label = <<d[1], d[1] + 1>>
               /\ (d[2] = 4 /\ d[3] = 20) => label = <<d[1] - 1, d[1]>>
               /\ (d[2] = 4 /\ d[3] = 21) => label = NoSeason

C4_Witness ==
    /\ step = "loaded"
    /\ Len(df.rows) = 1
    /\ df.rows[1].BusinessDate = <<2024, 4, 20>>
    /\ df.rows[1].SkiSeason = <<2023, 2024>>
    /\ df.rows[1].DayOfWeek = "Saturday"

----------------------------------------------------------------------------
(* pmix_dashboard.py : filter_df, aggregate, make_fig *)

NoDate == <<>>

\* a variant whose end bound is exclusive
filter_df_end_exclusive(t, filters, date_range) ==
    LET RECURSIVE ByColumns(_, _)
        ByColumns(rows, fs) ==
            IF fs = <<>> THEN rows
            ELSE ByColumns(IF Head(fs).values # {}
                           THEN SelectSeq(rows, LAMBDA r : r[Head(fs).col] \in Head(fs).values)
                           ELSE rows,
                           Tail(fs))
        q1 == ByColumns(t.rows, filters)
        q2 == IF date_range # <<>> /\ date_range[1] # NoDate
              THEN SelectSeq(q1, LAMBDA r : DateLE(date_range[1], r.BusinessDate))
              ELSE q1
        q3 == IF date_range # <<>> /\ date_range[2] # NoDate
              THEN SelectSeq(q2, LAMBDA r : DateLE(r.BusinessDate, date_range[2]) /\ r.BusinessDate # date_range[2])
              ELSE q2
    IN [t EXCEPT !.rows = q3]

\* filter_df(df, filters, date_range): filters is the dict's items in order,
\* date_range is <<>> (None) or <<start, end>>, each a date or NoDate (None)
filter_df(t, filters, date_range) ==
    LET RECURSIVE ByColumns(_, _)
        ByColumns(rows, fs) ==
            IF fs = <<>> THEN rows
            ELSE ByColumns(IF Head(fs).values # {}
                           THEN SelectSeq(rows, LAMBDA r : r[Head(fs).col] \in Head(fs).values)
                           ELSE rows,
                           Tail(fs))
        q1 == ByColumns(t.rows, filters)
        q2 == IF date_range # <<>> /\ date_range[1] # NoDate
              THEN SelectSeq(q1, LAMBDA r : DateLE(date_range[1], r.BusinessDate))
              ELSE q1
        q3 == IF date_range # <<>> /\ date_range[2] # NoDate
              THEN SelectSeq(q2, LAMBDA r : DateLE(r.BusinessDate, date_range[2]))
              ELSE q2
    IN [t EXCEPT !.rows = q3]

\* q = filter_df(df, filters, date_range), the arguments taken from F and R
FilterDf(F, R) ==
    /\ step = "loaded"
    /\ \E filters \in F, date_range \in R :
          /\ q' = filter_df(df, filters, date_range)
          /\ call' = [call EXCEPT !.filters = filters, !.date_range = date_range]
    /\ step' = "filtered"
    /\ UNCHANGED <<csv, df, agg, view, time_key>>
    /\ UNCHANGED enrichVars

\* the order of two texts (str comparison, by code point)
Alphabet == <<" ", "a", "b", "c", "d", "e", "f", "g", "h", "i", "j", "k", "l", "m",
              "n", "o", "p", "q", "r", "s", "t", "u", "v", "w", "x", "y", "z">>

CharCode(c) == CHOOSE i \in 1..Len(Alphabet) : Alphabet[i] = c

RECURSIVE TextLess(_, _)
TextLess(a, b) ==
    IF b = <<>> THEN FALSE
    ELSE IF a = <<>> THEN TRUE
    ELSE IF Head(a) = Head(b) THEN TextLess(Tail(a), Tail(b))
    ELSE CharCode(Head(a)) < CharCode(Head(b))

\* lines 69-81: the time key of a time slice
TimeKey(time_slice) ==
    CASE time_slice = "Month" -> "Month"
      [] time_slice = "Week" -> "WeekStart"
      [] time_slice = "Day of Week" -> "DayOfWeek"
      [] time_slice = "Ski Season" -> "SkiSeason"
      [] OTHER -> "Month"

\* the place of a time-key value in its column's order
KeyRank(tk, v) ==
    CASE tk = "DayOfWeek" -> CHOOSE i \in 1..Len(ordered_days) : ordered_days[i] = v
      [] tk = "SkiSeason" -> v[1]
      [] OTHER -> Ordinal(v)

\* sort_values(by=[sort_col, compare_by]) on rows with distinct keys
RECURSIVE SortGroups(_, _, _)
SortGroups(S, tk, compare_by) ==
    IF S = {} THEN <<>>
    ELSE LET Less(a, b) ==
                 \/ KeyRank(tk, a.key) < KeyRank(tk, b.key)
                 \/ /\ KeyRank(tk, a.key) = KeyRank(tk, b.key)
                    /\ compare_by # ""
                    /\ TextLess(a.cmp, b.cmp)
             first == CHOOSE x \in S : \A y \in S \ {x} : Less(x, y)
         IN <<first>> \o SortGroups(S \ {first}, tk, compare_by)

RECURSIVE SumSeq(_)
SumSeq(vals) == IF vals = <<>> THEN 0 ELSE Head(vals)[1] + SumSeq(Tail(vals))

\* a variant that sums an empty group to 0
GroupSumMinCount0(vals) == <<SumSeq(SelectSeq(vals, LAMBDA v : v # <<>>))>>

\* sum(min_count=1) of a group's metric cells
GroupSum(vals) ==
    LET present == SelectSeq(vals, LAMBDA v : v # <<>>)
    IN IF Len(present) >= 1 THEN <<SumSeq(present)>> ELSE <<>>

\* pd.Categorical(q["DayOfWeek"], categories=ordered_days, ordered=True)
AsCategorical(t) ==
    [rows |-> [i \in 1..Len(t.rows) |->
                 [t.rows[i] EXCEPT !.DayOfWeek =
                     IF t.rows[i].DayOfWeek \in Range(ordered_days) THEN t.rows[i].DayOfWeek ELSE "NaN"]],
     dow |-> "category"]

\* aggregate(q, time_slice, compare_by, metric) with metric = NetRevenue:
\* g, time_key, and the caller's table after the call.  observed is the
\* default of groupby's observed= in the pandas at hand.
aggregate(t, time_slice, compare_by, observed) ==
    LET tk == TimeKey(time_slice)
        after == IF time_slice = "Day of Week" THEN AsCategorical(t) ELSE t
        rows == IF time_slice = "Ski Season"
                THEN SelectSeq(t.rows, LAMBDA r : r.SkiSeason # NoSeason)
                ELSE after.rows
        CmpOf(r) == IF compare_by = "" THEN <<>> ELSE r[compare_by]
        seen == {[key |-> rows[i][tk], cmp |-> CmpOf(rows[i])] : i \in 1..Len(rows)}
        groups == IF time_slice = "Day of Week" /\ ~observed
                  THEN {[key |-> k, cmp |-> c] :
                            k \in Range(ordered_days),
                            c \in IF compare_by = "" THEN {<<>>} ELSE {g.cmp : g \in seen}}
                  ELSE seen
        Members(g) == SelectSeq(rows, LAMBDA r : r[tk] = g.key /\ CmpOf(r) = g.cmp)
        Total(g) == LET m == Members(g) IN GroupSum([i \in 1..Len(m) |-> m[i].NetRevenue])
    IN [g |-> SortGroups({[key |-> g.key, cmp |-> g.cmp, val |-> Total(g)] : g \in groups}, tk, compare_by),
        time_key |-> tk,
        q |-> after]

TimeSlices == {"Month", "Week", "Day of Week", "Ski Season", "Quarter"}

\* agg, time_key = aggregate(q, time_slice, compare_by, metric); observed only
\* matters to the categorical key of Day of Week and is fixed for the others
Aggregate ==
    /\ step = "filtered"
    /\ \E time_slice \in TimeSlices, compare_by \in {"", "ItemName"}, observed \in BOOLEAN :
          LET res == aggregate(q, time_slice, compare_by, observed)
          IN /\ time_slice # "Day of Week" => observed
             /\ agg' = res.g
             /\ time_key' = res.time_key
             /\ q' = res.q
             /\ call' = [call EXCEPT !.time_slice = time_slice, !.compare_by = compare_by,
                                     !.observed = observed]
    /\ step' = "aggregated"
    /\ UNCHANGED <<csv, df, view>>
    /\ UNCHANGED enrichVars

\* totals of make_fig: groupby(compare_by)[metric].sum() (an empty sum is 0)
TotalOf(a, c) ==
    LET m == SelectSeq(a, LAMBDA r : r.cmp = c /\ r.val # <<>>)
    IN SumSeq([i \in 1..Len(m) |-> m[i].val])

Min(a, b) == IF a <= b THEN a ELSE b

\* the sets make_fig may keep: top_n values of the comparison dimension, none
\* of a smaller total than one left out (the order among equal totals is the
\* sort's)
KeepSets(a, top_n) ==
    LET values == {a[i].cmp : i \in 1..Len(a)}
    IN {K \in SUBSET values :
           /\ Cardinality(K) = Min(top_n, Cardinality(values))
           /\ \A k \in K, o \in values \ K : TotalOf(a, k) >= TotalOf(a, o)}

\* fig, view = make_fig(agg, time_key, compare_by, metric, chart_type, top_n)
MakeFig ==
    /\ step = "aggregated"
    /\ \E top_n \in {1, 3} :
          /\ IF call.compare_by # ""
             THEN \E keep \in KeepSets(agg, top_n) :
                      view' = SelectSeq(agg, LAMBDA r : r.cmp \in keep)
             ELSE view' = agg
          /\ call' = [call EXCEPT !.top_n = top_n]
    /\ step' = "drawn"
    /\ UNCHANGED <<csv, df, q, agg, time_key>>
    /\ UNCHANGED enrichVars

----------------------------------------------------------------------------
(* The dashboard: its input file and the calls of one script run *)

MaxCsvRows == 2

\* April 20 (a Saturday, in season), April 21 (off season), November 10
FilterDates == {<<2024, 4, 20>>, <<2024, 4, 21>>, <<2024, 11, 10>>}

FilterCsvRows ==
    {CsvRow(d, n, g, <<1>>) : d \in FilterDates, n \in {<<"x">>, <<"y", " ">>}, g \in {<<"g">>, <<"h">>}}

\* the five multiselects reduced to two columns, in the dict's order
AllFilters ==
    {<< [col |-> "ItemGroup", values |-> G], [col |-> "ItemName", values |-> N] >> :
        G \in SUBSET {<<"g">>, <<"h">>}, N \in SUBSET {<<"x">>, <<"y">>}}

AllRanges ==
    {<<>>} \cup {<<s, e>> : s \in {NoDate, <<2024, 4, 21>>}, e \in {NoDate, <<2024, 4, 21>>}}

InitFilter ==
    /\ csv \in SeqsUpTo(FilterCsvRows, MaxCsvRows)
    /\ DashStart
    /\ EnrichIdle

NextFilter == LoadData \/ FilterDf(AllFilters, AllRanges)

SpecFilter == InitFilter /\ [][NextFilter]_vars

\* April 20 (a Saturday, in season) and May 6 (a Monday, off season)
DashDates == {<<2024, 4, 20>>, <<2024, 5, 6>>}

DashCsvRows ==
    {CsvRow(d, n, <<"g">>, v) : d \in DashDates, n \in {<<"x">>, <<"y", " ">>}, v \in {<<>>, <<0>>, <<2>>}}

FewFilters ==
    {<< [col |-> "ItemGroup", values |-> {}], [col |-> "ItemName", values |-> N] >> : N \in {{}, {<<"x">>}}}

InitDash ==
    /\ csv \in SeqsUpTo(DashCsvRows, MaxCsvRows)
    /\ DashStart
    /\ EnrichIdle

NextDash == LoadData \/ FilterDf(FewFilters, {<<>>}) \/ Aggregate \/ MakeFig

SpecDash == InitDash /\ [][NextDash]_vars

----------------------------------------------------------------------------
(* Properties of the dashboard *)

\* row r satisfies the column constraints and the date range of the call
Passes(r) ==
    /\ \A k \in 1..Len(call.filters) :
          call.filters[k].values # {} => r[call.filters[k].col] \in call.filters[k].values
    /\ (call.date_range # <<>> /\ call.date_range[1] # NoDate)
          => Ordinal(r.BusinessDate) >= Ordinal(call.date_range[1])
    /\ (call.date_range # <<>> /\ call.date_range[2] # NoDate)
          => Ordinal(r.BusinessDate) <= Ordinal(call.date_range[2])

Unconstrained ==
    /\ \A k \in 1..Len(call.filters) : call.filters[k].values = {}
    /\ call.date_range = <<>> \/ call.date_range = <<NoDate, NoDate>>

\* C7: filter_df returns exactly the rows that hold an allowed value in every
\* column whose set is not empty and whose BusinessDate is within the range,
\* bounds included, a missing bound being open; with no constraint it returns
\* every row, and the grouped sums of its result are those of the whole table.
C7_Filter ==
    step = "filtered" =>
        /\ q.rows = SelectSeq(df.rows, Passes)
        /\ Unconstrained =>
              /\ q.rows = df.rows
              /\ \A ts \in TimeSlices, cb \in {"", "ItemName", "ItemGroup"}, ob \in BOOLEAN :
                    aggregate(q, ts, cb, ob).g = aggregate(df, ts, cb, ob).g

C7_Witness ==
    /\ step = "filtered"
    /\ call.filters[1].values = {<<"g">>}
    /\ call.filters[2].values = {<<"x">>, <<"y">>}
    /\ call.date_range = <<NoDate, <<2024, 4, 21>> >>
    /\ Len(df.rows) = 2
    /\ Len(q.rows) = 1
    /\ q.rows[1].BusinessDate = <<2024, 4, 21>>
    /\ df.rows[1].ItemGroup = <<"g">>
    /\ df.rows[1].BusinessDate = <<2024, 11, 10>>

\* the rows of q that aggregate groups, and the group each belongs to
Contributes(i) == call.time_slice = "Ski Season" => q.rows[i].SkiSeason # NoSeason

GroupKey(i) == q.rows[i][time_key]

GroupCmp(i) == IF call.compare_by = "" THEN <<>> ELSE q.rows[i][call.compare_by]

NonNull(k, c) ==
    {i \in 1..Len(q.rows) :
        Contributes(i) /\ GroupKey(i) = k /\ GroupCmp(i) = c /\ q.rows[i].NetRevenue # <<>>}

RECURSIVE RevenueOf(_)
RevenueOf(I) ==
    IF I = {} THEN 0
    ELSE LET i == CHOOSE x \in I : TRUE IN q.rows[i].NetRevenue[1] + RevenueOf(I \ {i})

C9_ReadOnly ==
    [][/\ (step = "loaded" /\ step' = "filtered") => df' = df
       /\ (step = "filtered" /\ step' = "aggregated") => q' = q
       /\ (step = "aggregated" /\ step' = "drawn") => agg' = agg]_vars

=============================================================================
